---- MODULE Spec2Model ----
(***************************************************************************)
(* Status synchronisation and aggregation engine of the JAAS dashboard.    *)
(*                                                                         *)
(*  Spec        the polling scheduler (juju/index.js: fetchAllModelStatuses *)
(*              and the functions it calls), one poll cycle.               *)
(*  SpecRollup  getModelStatusGroupData (app/utils.js) applied to a model. *)
(*  SpecGroup   groupModelsByStatus (app/selectors.js) applied to a        *)
(*              collection of models.                                      *)
(*  SpecFilter  filterModelData (app/selectors.js) applied to a list of    *)
(*              active filters and a collection of models.                 *)
(*                                                                         *)
(* JavaScript values: a string is a sequence of tokens (the substrings the *)
(* code splits at or replaces, and the names between them); an optional    *)
(* field is <<>> when absent and <<value>> when present; null is Null; an  *)
(* object used as a map lists its entries [key, value] in key order.       *)
(*                                                                         *)
(* The tasks of one poll cycle run the same code and differ only in the    *)
(* UUID their closure captures, so the scheduler state keeps the started   *)
(* tasks as a bag of task records (how many tasks are at which point, with *)
(* what history), and the queued jobs as a FIFO of job records.            *)
(***************************************************************************)
EXTENDS Integers, Sequences, FiniteSets, Bags, TLC

VARIABLES
  \* ---- polling scheduler
  called,      \* fetchAllModelStatuses has been called
  modelList,   \* number of UUID keys of reduxStore.getState().juju.models
  polling,     \* state.root.modelStatusPolling, the continue-polling signal
  queue,       \* the Limiter: [jobs, pending, cbs]
  tasks,       \* bag of the task records of the jobs that have been started
  ticks,       \* callbacks handed to process.nextTick, not yet run
  promise,     \* the promise fetchAllModelStatuses returned
  dispatched,  \* store writes: [status |-> n, info |-> n] actions dispatched,
               \* and log, the payloads of the update-status actions in order
  \* ---- status rollup
  model,       \* the model handed to getModelStatusGroupData ("none": not chosen)
  rollup,      \* <<what getModelStatusGroupData returned>>, <<>> before the call
  \* ---- grouping
  modelData,   \* the collection handed to groupModelsByStatus: Null or an object
  grouped,     \* <<what groupModelsByStatus returned>>, <<>> before the call
  statusCounts, \* <<what getGroupedModelStatusCounts returned>>, <<>> before
  byOwner,     \* <<what groupModelsByOwner returned>>, <<>> before the call
  byCloud,     \* <<what groupModelsByCloud returned>>, <<>> before the call
  machinesGrouped, \* <<what groupMachinesByStatus returned>>, <<>> before
  classified,  \* <<the last classifier call: kind, raw status, result>>, or <<>>
  lookup,      \* <<the last getModelUUIDByName call: name, result>>, or <<>>
  \* ---- filtering
  filters,     \* the active filters handed to filterModelData: Null or an array
  heap,        \* the collections in memory, by reference
  filtered,    \* <<what filterModelData returned>>, <<>> before the call
  refiltered,  \* <<what filterModelData returned for its own result>>, or <<>>
  \* ---- root reducer
  root,        \* state.root
  rootBefore,  \* state.root before the last action was reduced
  action,      \* the last action handed to rootReducer, its outcome included
  loggedIn,    \* what the isLoggedIn selectors return on state.root
  \* ---- credential decoding
  macaroons,   \* the stored credentials handed to getDecodedMacaroons: <<>> is null
  decoded      \* <<what getDecodedMacaroons returned>>, <<>> before the call

pollVars == <<called, modelList, polling, queue, tasks, ticks, promise, dispatched>>

rollupVars == <<model, rollup>>

groupVars ==
  <<modelData, grouped, statusCounts, byOwner, byCloud, machinesGrouped, classified,
    lookup>>

filterVars == <<filters, heap, filtered, refiltered>>

rootVars == <<root, rootBefore, action, loggedIn>>

decodeVars == <<macaroons, decoded>>

vars == <<pollVars, rollupVars, groupVars, filterVars, rootVars, decodeVars>>

\* ------------------------------------------------------------------ bounds

\* Largest number of models in the store at the start of a poll cycle.
NumModels == 6

\* Largest number of applications of a model handed to the rollup.
MaxApps == 2

\* Largest number of units of a model, over all its applications.
MaxUnits == 3

\* Largest number of models in a collection handed to a grouping.
MaxModels == 3

\* Largest number of models in a collection handed to the filter.
MaxFilterModels == 2

\* Largest number of active filters.
MaxFilters == 2

\* Largest number of models in a collection handed to the machine grouping.
MaxMachineModels == 2

\* Largest number of machines of a collection, over all its models.
MaxMachines == 3

\* Models of a collection a model is looked up in by name.
MaxNamedModels == 3

\* Longest list of active filters selected in the filter panel.
MaxActiveFilters == 2

\* Longest model list whose tasks are told apart by their model UUID; the tasks
\* of a longer list are counted only.
MaxTracked == 2

\* ------------------------------------------------------- polling scheduler

\* A limiter one slot too wide.
concurrency_wide == 5 + 1

\* new Limiter({ concurrency: 5 })
concurrency == 5

\* The closure pushed for one model UUID, before it has run. signal is what the
\* job read from the store when it started (<<>> before); events lists, in
\* order, what the task has done: "connect", "settled" (fetchModelStatus has
\* returned), "update-status", "modelInfo" (the request), "update-info". timer
\* is the setTimeout of connectAndLoginWithTimeout: "none", "armed", "fired",
\* and "off" once fetchModelStatus has returned (it has no effect from then on).
\* url is the modelURL the connection is made to (<<>> before).
NewJob(modelUUID) ==
  [modelUUID |-> modelUUID, url |-> <<>>,
   pc |-> "queued", conn |-> "none", timedOut |-> FALSE, connects |-> 0,
   statusWrites |-> 0, infoFetches |-> 0, infoWrites |-> 0,
   signal |-> <<>>, events |-> <<>>, timer |-> "none"]

\* A URL that names the same model whatever the UUID.
modelURL_fixed(modelUUID) == <<"controller", "/model/", 1, "/api">>

\* controllerURL.replace("/api", `/model/${modelUUID}/api`)
modelURL(modelUUID) == <<"controller", "/model/", modelUUID, "/api">>

\* conn.facades.client.fullStatus() over a connection to url: the status of the
\* model the URL names.
fullStatus(url) == [model |-> url[3]]

\* The payload of the action updateModelStatus(modelUUID, status) dispatches.
updateModelStatus(modelUUID, status) == [modelUUID |-> modelUUID, status |-> status]

\* A signal that always reads as enabled.
continueModelStatusPolling_on(p) == TRUE

\* continueModelStatusPolling(state): state.root.modelStatusPolling
continueModelStatusPolling(p) == p

\* connectAndLoginWithTimeout is entered: the timer is armed and
\* jujulib.connectAndLogin is issued.
connectAndLoginWithTimeout(t) ==
  [t EXCEPT !.pc = "connecting", !.conn = "pending", !.connects = @ + 1,
            !.events = Append(@, "connect"), !.timer = "armed",
            !.url = modelURL(t.modelUUID)]

\* A store that leaves out the null check.
fetchAndStoreModelStatus_nocheck(t, status) ==
  [t EXCEPT !.statusWrites = @ + 1,
            !.events = @ \o <<"settled", "update-status">>]

\* fetchAndStoreModelStatus after fetchModelStatus has returned `status`
\* ("null" or a snapshot): a snapshot is dispatched, whatever the signal says.
fetchAndStoreModelStatus(t, status) ==
  IF status = "null"
  THEN [t EXCEPT !.events = Append(@, "settled")]
  ELSE [t EXCEPT !.statusWrites = @ + 1,
                 !.events = @ \o <<"settled", "update-status">>]

\* A request for the model info that does not wait for the status.
fetchModelInfo_early(t) ==
  [t EXCEPT !.pc = "modelInfo", !.infoFetches = @ + 1,
            !.events = <<"modelInfo">> \o @]

\* fetchModelInfo is entered: modelManager.modelInfo is requested.
fetchModelInfo(t) ==
  [t EXCEPT !.pc = "modelInfo", !.infoFetches = @ + 1,
            !.events = Append(@, "modelInfo")]

\* The Limiter's done, _run and the synchronous start of a job.
RECURSIVE QueueRun(_, _), QueueDone(_, _), Job(_, _, _)

\* The job's body up to its first await (or to its end when the signal is off).
Job(j, s, p) ==
  LET t == [j EXCEPT !.signal = <<p>>]
  IN  IF continueModelStatusPolling(p)
      THEN [s EXCEPT !.tasks = @ (+) SetToBag({connectAndLoginWithTimeout(t)})]
      ELSE QueueDone([s EXCEPT !.tasks = @ (+) SetToBag({[t EXCEPT !.pc = "done"]})], p)

\* done(): pending--, _run()
QueueDone(s, p) == QueueRun([s EXCEPT !.pending = @ - 1], p)

\* _run(): start jobs while there is room, hand the callbacks to nextTick once
\* nothing is pending.
QueueRun(s, p) ==
  IF s.pending = concurrency THEN s
  ELSE LET s1 == IF s.jobs # <<>>
                 THEN QueueRun(Job(Head(s.jobs),
                                   [s EXCEPT !.jobs = Tail(@), !.pending = @ + 1],
                                   p), p)
                 ELSE s
       IN  IF s1.pending = 0
           THEN [s1 EXCEPT !.ticks = @ \o s1.cbs, !.cbs = <<>>]
           ELSE s1

\* queue.push(job): append, then _run()
QueuePush(s, modelUUID, p) ==
  QueueRun([s EXCEPT !.jobs = Append(@, NewJob(modelUUID))], p)

\* queue.onDone(cb): register, then _run()
QueueOnDone(s, p) == QueueRun([s EXCEPT !.cbs = Append(@, "resolve")], p)

\* Object.keys(modelList): the UUIDs 1..n of a list of n models, or 0 for each
\* when the tasks are not told apart.
ObjectKeys(n) == [i \in 1..n |-> IF n <= MaxTracked THEN i ELSE 0]

RECURSIVE PushAll(_, _, _)
\* modelUUIDs.forEach(modelUUID => queue.push(...))
PushAll(modelUUIDs, s, p) ==
  IF modelUUIDs = <<>> THEN s
  ELSE PushAll(Tail(modelUUIDs), QueuePush(s, Head(modelUUIDs), p), p)

\* The scheduler state the Limiter operators work on.
Sched == [jobs |-> queue.jobs, pending |-> queue.pending, cbs |-> queue.cbs,
          tasks |-> tasks, ticks |-> ticks]

SetSched(s) ==
  /\ queue' = [jobs |-> s.jobs, pending |-> s.pending, cbs |-> s.cbs]
  /\ tasks' = s.tasks
  /\ ticks' = s.ticks

\* Task t of the bag becomes u.
Replace(t, u) == (tasks (-) SetToBag({t})) (+) SetToBag({u})

InitPoll ==
  /\ called = FALSE
  /\ modelList \in 0..NumModels
  /\ polling \in BOOLEAN
  /\ queue = [jobs |-> <<>>, pending |-> 0, cbs |-> <<>>]
  /\ tasks = EmptyBag
  /\ ticks = <<>>
  /\ promise = "none"
  /\ dispatched = [status |-> 0, info |-> 0, log |-> <<>>]

\* fetchAllModelStatuses(conn, reduxStore), up to its return.
FetchAllModelStatuses ==
  /\ ~called
  /\ called' = TRUE
  /\ SetSched(QueueOnDone(PushAll(ObjectKeys(modelList), Sched, polling), polling))
  /\ promise' = "pending"
  /\ UNCHANGED <<modelList, polling, dispatched>>

\* rootReducer, actionsList.modelStatusPolling: the signal is set from outside.
SetModelStatusPolling(b) ==
  /\ polling' = b
  /\ polling # b
  /\ UNCHANGED <<called, modelList, queue, tasks, ticks, promise, dispatched>>

\* jujulib.connectAndLogin resolves before the timer: the race resolves with the
\* connection and fetchModelStatus requests fullStatus.
ConnectResolves(t) ==
  /\ t.pc = "connecting"
  /\ tasks' = Replace(t, [t EXCEPT !.pc = "fullStatus", !.conn = "open"])
  /\ UNCHANGED <<called, modelList, polling, queue, ticks, promise, dispatched>>

\* jujulib.connectAndLogin rejects before the timer: the race rejects, its then()
\* has no rejection handler and the promise fetchModelStatus awaits never settles.
ConnectRejects(t) ==
  /\ t.pc = "connecting"
  /\ tasks' = Replace(t, [t EXCEPT !.pc = "hung", !.conn = "failed"])
  /\ UNCHANGED <<called, modelList, polling, queue, ticks, promise, dispatched>>

\* The timer wins the race: reject("timeout") is caught in fetchModelStatus, which
\* returns null; fetchAndStoreModelStatus returns and the job goes on to
\* fetchModelInfo.
TimerFires(t) ==
  /\ t.pc = "connecting"
  /\ t.timer = "armed"
  /\ LET t1 == fetchAndStoreModelStatus(
                 [t EXCEPT !.timedOut = TRUE, !.timer = "off"], "null")
     IN  /\ tasks' = Replace(t, fetchModelInfo(t1))
         /\ dispatched' = [dispatched EXCEPT !.status = @ + t1.statusWrites - t.statusWrites]
  /\ UNCHANGED <<called, modelList, polling, queue, ticks, promise>>

\* The timer fires after jujulib.connectAndLogin has settled: the race was
\* decided before, and resolving the timeout promise changes nothing. The event
\* is recorded for the tasks that are told apart.
LateTimer(t) ==
  /\ t.pc \in {"fullStatus", "hung"}
  /\ t.timer = "armed"
  /\ t.modelUUID # 0
  /\ tasks' = Replace(t, [t EXCEPT !.timer = "fired"])
  /\ UNCHANGED <<called, modelList, polling, queue, ticks, promise, dispatched>>

\* The connection is established after the timer has won: nothing awaits it.
LateConnect(t) ==
  /\ t.timedOut
  /\ t.conn = "pending"
  /\ tasks' = Replace(t, [t EXCEPT !.conn = "open"])
  /\ UNCHANGED <<called, modelList, polling, queue, ticks, promise, dispatched>>

\* fullStatus resolves: logout(), the status is returned and dispatched, and the
\* job goes on to fetchModelInfo.
FullStatusResolves(t) ==
  /\ t.pc = "fullStatus"
  /\ LET t1 == fetchAndStoreModelStatus(
                 [t EXCEPT !.conn = "released", !.timer = "off"], "status")
     IN  /\ tasks' = Replace(t, fetchModelInfo(t1))
         /\ dispatched' =
              [dispatched EXCEPT
                 !.status = @ + t1.statusWrites - t.statusWrites,
                 !.log = IF t1.statusWrites > t.statusWrites
                         THEN Append(@, updateModelStatus(t.modelUUID, fullStatus(t.url)))
                         ELSE @]
  /\ UNCHANGED <<called, modelList, polling, queue, ticks, promise>>

\* fullStatus rejects: caught in fetchModelStatus before logout() is reached; null
\* is returned and the job goes on to fetchModelInfo.
FullStatusRejects(t) ==
  /\ t.pc = "fullStatus"
  /\ LET t1 == fetchAndStoreModelStatus([t EXCEPT !.timer = "off"], "null")
     IN  /\ tasks' = Replace(t, fetchModelInfo(t1))
         /\ dispatched' = [dispatched EXCEPT !.status = @ + t1.statusWrites - t.statusWrites]
  /\ UNCHANGED <<called, modelList, polling, queue, ticks, promise>>

\* modelInfo resolves: the signal is read again, the info is dispatched when it is
\* on, and done() is called.
ModelInfoResolves(t) ==
  /\ t.pc = "modelInfo"
  /\ LET w  == IF continueModelStatusPolling(polling) THEN 1 ELSE 0
         t1 == [t EXCEPT !.pc = "done", !.infoWrites = @ + w,
                         !.events = IF w = 1 THEN Append(@, "update-info") ELSE @]
     IN  /\ SetSched(QueueDone([Sched EXCEPT !.tasks = Replace(t, t1)], polling))
         /\ dispatched' = [dispatched EXCEPT !.info = @ + w]
  /\ UNCHANGED <<called, modelList, polling, promise>>

\* modelInfo rejects: the job's async function rejects and done() is not reached.
ModelInfoRejects(t) ==
  /\ t.pc = "modelInfo"
  /\ tasks' = Replace(t, [t EXCEPT !.pc = "failed"])
  /\ UNCHANGED <<called, modelList, polling, queue, ticks, promise, dispatched>>

\* process.nextTick runs the onDone callback: resolve().
NextTick ==
  /\ ticks # <<>>
  /\ ticks' = Tail(ticks)
  /\ promise' = "resolved"
  /\ UNCHANGED <<called, modelList, polling, queue, tasks, dispatched>>

NextPoll ==
  \/ FetchAllModelStatuses
  \/ \E b \in BOOLEAN : SetModelStatusPolling(b)
  \/ \E t \in BagToSet(tasks) : ConnectResolves(t)
  \/ \E t \in BagToSet(tasks) : ConnectRejects(t)
  \/ \E t \in BagToSet(tasks) : TimerFires(t)
  \/ \E t \in BagToSet(tasks) : LateTimer(t)
  \/ \E t \in BagToSet(tasks) : LateConnect(t)
  \/ \E t \in BagToSet(tasks) : FullStatusResolves(t)
  \/ \E t \in BagToSet(tasks) : FullStatusRejects(t)
  \/ \E t \in BagToSet(tasks) : ModelInfoResolves(t)
  \/ \E t \in BagToSet(tasks) : ModelInfoRejects(t)
  \/ NextTick

\* ------------------------------------------------------------ status rollup

\* Raw status values of an application, and of a unit's agent: the keys the
\* classifiers look for, and one other value each.
AppStatusValues == {"blocked", "unknown", "active"}

UnitStatusValues == {"lost", "allocating", "idle"}

\* A model from its shape, a sequence of <<application status, unit agent
\* statuses>> in key order; each status message names the entity it belongs to.
MkModel(shape) ==
  [applications |->
     [a \in 1..Len(shape) |->
        [status |-> [status |-> shape[a][1], info |-> <<"app", a>>],
         units  |-> [u \in 1..Len(shape[a][2]) |->
                       [agentStatus |-> [status |-> shape[a][2][u],
                                         info   |-> <<"unit", a, u>>]]]]]]

\* Sequences over S of length at most n.
SeqUpTo(S, n) == UNION {[1..k -> S] : k \in 0..n}

\* Highest status to the right.
statusOrder == <<"running", "alert", "blocked">>

\* Array.prototype.indexOf, 0-based, -1 when absent.
indexOf(arr, x) ==
  IF \E i \in 1..Len(arr) : arr[i] = x
  THEN (CHOOSE i \in 1..Len(arr) : arr[i] = x /\ \A j \in 1..(i - 1) : arr[j] # x) - 1
  ELSE -1

\* A comparison that lets the last entity win.
setHighestStatus_last(entityStatus, highestStatus) == entityStatus

setHighestStatus(entityStatus, highestStatus) ==
  IF indexOf(statusOrder, entityStatus) > indexOf(statusOrder, highestStatus)
  THEN entityStatus
  ELSE highestStatus

\* A check that takes every status above the lowest for the highest.
checkHighestStatus_alert(highestStatus) ==
  highestStatus # statusOrder[1]

checkHighestStatus(highestStatus) ==
  highestStatus = statusOrder[Len(statusOrder)]

\* The classifiers' common body: "running", then "blocked" when the status is a
\* blocked key, then "alert" when it is an alert key.
StatusGroup(status, blocked, alert) ==
  LET r0 == [status |-> "running", message |-> "null"]
      r1 == IF status \in blocked THEN [r0 EXCEPT !.status = "blocked"] ELSE r0
  IN  IF status \in alert THEN [r1 EXCEPT !.status = "alert"] ELSE r1

getApplicationStatusGroup(application) ==
  StatusGroup(application.status.status, {"blocked"}, {"unknown"})

getUnitStatusGroup(unit) ==
  StatusGroup(unit.agentStatus.status, {"lost"}, {"allocating"})

\* A machine classifier that looks for the keys of units.
getMachineStatusGroup_unit(machine) ==
  StatusGroup(machine.agentStatus.status, {"lost"}, {"allocating"})

getMachineStatusGroup(machine) ==
  StatusGroup(machine.agentStatus.status, {"down"}, {"pending"})

RECURSIVE UnitsForEach(_, _, _)
\* Object.keys(app.units).forEach(...), from unit i on; acc is
\* [highestStatus, messages]. The return in the callback ends one call of the
\* callback only.
UnitsForEach(units, i, acc) ==
  IF i > Len(units) THEN acc
  ELSE LET unit == units[i]
           h    == setHighestStatus(getUnitStatusGroup(unit).status, acc.highestStatus)
       IN  UnitsForEach(units, i + 1,
             IF checkHighestStatus(h)
             THEN [highestStatus |-> h,
                   messages |-> Append(acc.messages, unit.agentStatus.info)]
             ELSE [acc EXCEPT !.highestStatus = h])

RECURSIVE AppsForEach_descend(_, _, _)
\* An iteration that scans the units of every application, also of one at which
\* the highest status is reached.
AppsForEach_descend(applications, i, acc) ==
  IF i > Len(applications) THEN acc
  ELSE LET app == applications[i]
           h   == setHighestStatus(getApplicationStatusGroup(app).status, acc.highestStatus)
       IN  AppsForEach_descend(applications, i + 1,
             UnitsForEach(app.units, 1,
               IF checkHighestStatus(h)
               THEN [highestStatus |-> h,
                     messages |-> Append(acc.messages, app.status.info)]
               ELSE [acc EXCEPT !.highestStatus = h]))

RECURSIVE AppsForEach(_, _, _)
\* Object.keys(applications).forEach(...), from application i on.
AppsForEach(applications, i, acc) ==
  IF i > Len(applications) THEN acc
  ELSE LET app == applications[i]
           h   == setHighestStatus(getApplicationStatusGroup(app).status, acc.highestStatus)
       IN  AppsForEach(applications, i + 1,
             IF checkHighestStatus(h)
             THEN [highestStatus |-> h,
                   messages |-> Append(acc.messages, app.status.info)]
             ELSE UnitsForEach(app.units, 1, [acc EXCEPT !.highestStatus = h]))

getModelStatusGroupData(m) ==
  AppsForEach(m.applications, 1, [highestStatus |-> statusOrder[1], messages |-> <<>>])

RECURSIVE SumTo(_, _)
\* counts[1] + ... + counts[k]
SumTo(counts, k) == IF k = 0 THEN 0 ELSE SumTo(counts, k - 1) + counts[k]

\* The shape with the given application statuses and, for application a,
\* counts[a] units whose agent statuses are taken from flat in order.
ShapeOf(apps, counts, flat) ==
  [a \in 1..Len(apps) |->
     <<apps[a], [u \in 1..counts[a] |-> flat[SumTo(counts, a - 1) + u]]>>]

InitRollup ==
  /\ \E n \in 0..MaxApps :
       \E counts \in [1..n -> 0..MaxUnits] :
         /\ SumTo(counts, n) <= MaxUnits
         /\ \E apps \in [1..n -> AppStatusValues] :
              \E flat \in [1..SumTo(counts, n) -> UnitStatusValues] :
                model = MkModel(ShapeOf(apps, counts, flat))
  /\ rollup = <<>>

IdleRollup ==
  /\ model = "none"
  /\ rollup = <<>>

\* getModelStatusGroupData(model) is called.
GetModelStatusGroupData ==
  /\ rollup = <<>>
  /\ rollup' = <<getModelStatusGroupData(model)>>
  /\ UNCHANGED model

\* ---------------------------------------------------------------- grouping

\* null; an object as a map, its entries [key, value] in key order; an array.
Null == [type |-> "null", entries |-> <<>>]

Obj(entries) == [type |-> "object", entries |-> entries]

Arr(items) == [type |-> "array", entries |-> items]

\* The object that stores the values of seq under the keys 1, 2, ...
Keyed(seq) == Obj([k \in 1..Len(seq) |-> [key |-> k, value |-> seq[k]]])

\* The models a collection is made of: no application, running, alert and
\* blocked ones, by an application and by a unit.
SampleModels ==
  {MkModel(shape) : shape \in
     { <<>>,
       << <<"active", <<>>>> >>,
       << <<"active", <<"idle">>>> >>,
       << <<"unknown", <<"idle">>>> >>,
       << <<"active", <<"allocating">>>> >>,
       << <<"blocked", <<"idle">>>> >>,
       << <<"active", <<"lost", "idle">>>>, <<"unknown", <<>>>> >> }}

\* A grouping that forgets the alert bucket.
groupModelsByStatus_noalert(data) ==
  IF data = Null
  THEN [blocked |-> <<>>, alert |-> <<>>, running |-> <<>>]
  ELSE [s \in {"blocked", "alert", "running"} |->
          SelectSeq([k \in 1..Len(data.entries) |->
                       [uuid |-> data.entries[k].key, data |-> data.entries[k].value]],
                    LAMBDA e : IF s = "running"
                               THEN getModelStatusGroupData(e.data).highestStatus # "blocked"
                               ELSE s = "blocked" /\
                                    getModelStatusGroupData(e.data).highestStatus = s)]

RECURSIVE GroupForIn(_, _, _)
\* for (let modelUUID in modelData) { grouped[highestStatus].push(model) }, from
\* key k on. A pushed model is the object stored under its key.
GroupForIn(data, k, acc) ==
  IF k > Len(data) THEN acc
  ELSE LET modelUUID == data[k].key
           m == data[k].value
           highestStatus == getModelStatusGroupData(m).highestStatus
       IN  GroupForIn(data, k + 1,
             [acc EXCEPT ![highestStatus] = Append(@, [uuid |-> modelUUID, data |-> m])])

groupModelsByStatus(data) ==
  LET grouped0 == [blocked |-> <<>>, alert |-> <<>>, running |-> <<>>]
  IN  IF data = Null THEN grouped0 ELSE GroupForIn(data.entries, 1, grouped0)

\* No grouping has been computed.
NoGrouping ==
  /\ grouped = <<>>
  /\ statusCounts = <<>>
  /\ byOwner = <<>>
  /\ byCloud = <<>>
  /\ machinesGrouped = <<>>
  /\ classified = <<>>
  /\ lookup = <<>>

InitGroup ==
  /\ modelData \in {Null} \cup {Keyed(ms) : ms \in SeqUpTo(SampleModels, MaxModels)}
  /\ NoGrouping

IdleGroup ==
  /\ modelData = Null
  /\ NoGrouping

\* groupModelsByStatus(modelData) is called.
GroupModelsByStatus ==
  /\ grouped = <<>>
  /\ grouped' = <<groupModelsByStatus(modelData)>>
  /\ UNCHANGED <<modelData, statusCounts, byOwner, byCloud, machinesGrouped, classified, lookup>>

\* A tally that reports the blocked models three times.
countModelStatusGroups_blocked(groupedModelStatuses) ==
  [blocked |-> Len(groupedModelStatuses.blocked),
   alert   |-> Len(groupedModelStatuses.blocked),
   running |-> Len(groupedModelStatuses.blocked)]

countModelStatusGroups(groupedModelStatuses) ==
  [blocked |-> Len(groupedModelStatuses.blocked),
   alert   |-> Len(groupedModelStatuses.alert),
   running |-> Len(groupedModelStatuses.running)]

\* The selector getGroupedModelStatusCounts is evaluated on the store:
\* countModelStatusGroups(groupModelsByStatus(modelData)).
GetGroupedModelStatusCounts ==
  /\ statusCounts = <<>>
  /\ statusCounts' = <<countModelStatusGroups(groupModelsByStatus(modelData))>>
  /\ UNCHANGED <<modelData, grouped, byOwner, byCloud, machinesGrouped, classified, lookup>>

\* ---------------------------------------------------------------- filtering

\* What an absent array element or property reads as.
Undefined == <<"(undefined)">>

\* What an operator yields when the code throws a TypeError.
TypeError == <<"(TypeError)">>

\* The first position of token x in string str, 0 when absent.
Find(str, x) ==
  IF \E i \in 1..Len(str) : str[i] = x
  THEN CHOOSE i \in 1..Len(str) : str[i] = x /\ \A j \in 1..(i - 1) : str[j] # x
  ELSE 0

RECURSIVE Split(_, _)
\* String.prototype.split(sep)
Split(str, sep) ==
  LET i == Find(str, sep)
  IN  IF i = 0 THEN <<str>>
      ELSE <<SubSeq(str, 1, i - 1)>> \o Split(SubSeq(str, i + 1, Len(str)), sep)

\* String.prototype.replace(pat, ""): the first occurrence is removed.
ReplaceFirst(str, pat) ==
  LET i == Find(str, pat)
  IN  IF i = 0 THEN str ELSE SubSeq(str, 1, i - 1) \o SubSeq(str, i + 1, Len(str))

\* arr[i], 0-based
At(arr, i) == IF i + 1 <= Len(arr) THEN arr[i + 1] ELSE Undefined

\* Array.prototype.includes
Includes(arr, x) == \E i \in 1..Len(arr) : arr[i] = x

\* An extraction that keeps the domain.
extractOwnerName_domain(tag) == ReplaceFirst(tag, "user-")

extractOwnerName(tag) == ReplaceFirst(At(Split(tag, "@"), 0), "user-")

\* An extraction that leaves the prefix in place.
extractCloudName_keep(tag) == tag

extractCloudName(tag) == ReplaceFirst(tag, "cloud-")

\* tag.split("cloudcred-")[1].split("@")[1].split("_")[1]
extractCredentialName(tag) ==
  LET a == At(Split(tag, "cloudcred-"), 1)
      b == IF a = Undefined THEN TypeError ELSE At(Split(a, "@"), 1)
  IN  IF b \in {Undefined, TypeError} THEN TypeError ELSE At(Split(b, "_"), 1)

RECURSIVE CollectSegments(_, _, _)
\* filters.forEach(filter => ...), from filter i on; filterSegments lists
\* [segment, values] in the order the segments were first seen.
CollectSegments(fs, i, filterSegments) ==
  IF i > Len(fs) THEN filterSegments
  ELSE LET values == Split(fs[i], ":")
           seg    == At(values, 0)
           at     == IF \E k \in 1..Len(filterSegments) : filterSegments[k].segment = seg
                     THEN CHOOSE k \in 1..Len(filterSegments) : filterSegments[k].segment = seg
                     ELSE 0
           added  == IF at = 0
                     THEN Append(filterSegments,
                                 [segment |-> seg, values |-> <<At(values, 1)>>])
                     ELSE [filterSegments EXCEPT ![at].values = Append(@, At(values, 1))]
       IN  CollectSegments(fs, i + 1, added)

\* "true" / "false": a boolean the callback of some() returns.
Bool(b) == IF b THEN "true" ELSE "false"

\* The switch of the some() callback for one [segment, values] and one model's
\* data: "true", "false", or "throw" when reading the data throws.
SegmentRemoves(fseg, data) ==
  LET segment == fseg.segment
      values  == fseg.values
  IN  IF segment = <<"cloud">>
      THEN IF data.model = <<>> THEN "throw"
           ELSE Bool(~Includes(values, extractCloudName(data.model[1].cloudTag)))
      ELSE IF segment = <<"credential">>
      THEN IF data.info # <<>>
           THEN LET c == extractCredentialName(data.info[1].cloudCredentialTag)
                IN  IF c = TypeError THEN "throw" ELSE Bool(~Includes(values, c))
           ELSE "false"
      ELSE IF segment = <<"region">>
      THEN IF data.model = <<>> THEN "throw"
           ELSE Bool(~Includes(values, data.model[1].region))
      ELSE IF segment = <<"owner">>
      THEN IF data.info # <<>>
           THEN Bool(~Includes(values, extractOwnerName(data.info[1].ownerTag)))
           ELSE "false"
      ELSE "false"

RECURSIVE Some(_, _, _)
\* Object.entries(filterSegments).some(...), from segment i on.
Some(filterSegments, i, data) ==
  IF i > Len(filterSegments) THEN "false"
  ELSE LET r == SegmentRemoves(filterSegments[i], data)
       IN  IF r = "false" THEN Some(filterSegments, i + 1, data) ELSE r

\* A loop that stops at the first model it removes.
FilterForEach_first(all, i, filterSegments, kept) ==
  LET hit(k) == Some(filterSegments, 1, all[k].value) # "false"
  IN  IF \E k \in 1..Len(all) : hit(k)
      THEN LET k == CHOOSE k \in 1..Len(all) : hit(k) /\ \A j \in 1..(k - 1) : ~hit(j)
           IN  IF Some(filterSegments, 1, all[k].value) = "throw"
               THEN [threw |-> TRUE, entries |-> kept]
               ELSE [threw |-> FALSE,
                     entries |-> SelectSeq(kept, LAMBDA e : e.key # all[k].key)]
      ELSE [threw |-> FALSE, entries |-> kept]

RECURSIVE FilterForEach(_, _, _, _)
\* Object.entries(clonedModelData).forEach(...), from entry i of the entries
\* taken before the loop; kept are the entries still in clonedModelData.
\* Yields [threw, entries].
FilterForEach(all, i, filterSegments, kept) ==
  IF i > Len(all) THEN [threw |-> FALSE, entries |-> kept]
  ELSE LET remove == Some(filterSegments, 1, all[i].value)
       IN  IF remove = "throw" THEN [threw |-> TRUE, entries |-> kept]
           ELSE FilterForEach(all, i + 1, filterSegments,
                  IF remove = "true"
                  THEN SelectSeq(kept, LAMBDA e : e.key # all[i].key)
                  ELSE kept)

\* A clone that is the object itself.
cloneDeep_alias(h, ref) == [heap |-> h, ref |-> ref]

\* cloneDeep(object): a new object with the same content.
cloneDeep(h, ref) ==
  LET new == Len(h) + 1
  IN  [heap |-> Append(h, h[ref]), ref |-> new]

\* filterModelData(filters, modelData), with modelData the object at ref of heap
\* h. Yields the heap after the call and what was returned: the reference of a
\* collection, or 0 when the call threw a TypeError.
filterModelData(fs, h, ref) ==
  IF fs = Null THEN [heap |-> h, threw |-> FALSE, ref |-> ref]
  ELSE LET filterSegments == CollectSegments(fs.entries, 1, <<>>)
           c      == cloneDeep(h, ref)
           cloned == c.heap[c.ref]
       IN  IF cloned = Null
           THEN [heap |-> c.heap, threw |-> TRUE, ref |-> 0]
           ELSE LET r == FilterForEach(cloned.entries, 1, filterSegments, cloned.entries)
                    h1 == [c.heap EXCEPT ![c.ref] = Obj(r.entries)]
                IN  IF r.threw
                    THEN [heap |-> h1, threw |-> TRUE, ref |-> 0]
                    ELSE [heap |-> h1, threw |-> FALSE, ref |-> c.ref]

\* A model's data from its attributes: the status part (model) and the info
\* part, each present or not; a model without a region has no region property.
MkData(a) ==
  [model |-> IF a.hasModel
             THEN <<[cloudTag |-> <<"cloud-", a.cloud>>,
                     region   |-> IF a.region = "" THEN Undefined ELSE <<a.region>>]>>
             ELSE <<>>,
   info  |-> IF a.hasInfo
             THEN <<[name |-> <<a.name>>,
                     ownerTag |-> IF a.domain = ""
                                  THEN <<"user-", a.owner>>
                                  ELSE <<"user-", a.owner, "@", a.domain>>,
                     cloudTag |-> <<"cloud-", a.cloud>>,
                     cloudRegion |-> IF a.region = "" THEN Undefined ELSE <<a.region>>,
                     cloudCredentialTag |->
                       <<"cloudcred-", a.cloud, "_", a.owner, "@", "external", "_",
                         a.credential>>]>>
             ELSE <<>>]

\* The attributes of the models a filtered collection is made of.
SampleAttrs ==
  { [hasModel |-> TRUE, cloud |-> "aws", region |-> "east", hasInfo |-> TRUE,
     name |-> "alpha", owner |-> "pizza", domain |-> "external", credential |-> "juju"],
    [hasModel |-> TRUE, cloud |-> "google", region |-> "west", hasInfo |-> TRUE,
     name |-> "alpha", owner |-> "island", domain |-> "", credential |-> "admin"],
    [hasModel |-> TRUE, cloud |-> "google", region |-> "east", hasInfo |-> TRUE,
     name |-> "beta", owner |-> "pizza", domain |-> "external", credential |-> "admin"],
    [hasModel |-> TRUE, cloud |-> "aws", region |-> "west", hasInfo |-> FALSE,
     name |-> "", owner |-> "", domain |-> "", credential |-> ""],
    [hasModel |-> FALSE, cloud |-> "aws", region |-> "", hasInfo |-> TRUE,
     name |-> "alpha", owner |-> "island", domain |-> "external", credential |-> "juju"],
    [hasModel |-> TRUE, cloud |-> "aws", region |-> "", hasInfo |-> TRUE,
     name |-> "beta", owner |-> "pizza", domain |-> "external", credential |-> "juju"] }

\* An active filter from its segment and value: "segment:value".
FilterString(pair) == <<pair[1], ":", pair[2]>>

\* The segment:value pairs the active filters are made of; status is no segment
\* of the filter.
SamplePairs ==
  { <<"cloud", "aws">>, <<"cloud", "google">>, <<"region", "east">>,
    <<"owner", "pizza">>, <<"owner", "island">>, <<"credential", "juju">>,
    <<"status", "blocked">> }

\* The caller's collection is the object at this reference.
InputRef == 1

InitFilter ==
  /\ filters \in {Null} \cup
       {Arr(fs) : fs \in SeqUpTo({FilterString(pr) : pr \in SamplePairs}, MaxFilters)}
  /\ modelData \in {Null} \cup
       {Keyed(ds) : ds \in SeqUpTo({MkData(a) : a \in SampleAttrs}, MaxFilterModels)}
  /\ heap = <<modelData>>
  /\ filtered = <<>>
  /\ refiltered = <<>>
  /\ NoGrouping

IdleFilter ==
  /\ filters = Null
  /\ heap = <<>>
  /\ filtered = <<>>
  /\ refiltered = <<>>

\* filterModelData(filters, modelData) is called.
FilterModelData ==
  /\ filtered = <<>>
  /\ LET r == filterModelData(filters, heap, InputRef)
     IN  /\ heap' = r.heap
         /\ filtered' = <<[threw |-> r.threw, ref |-> r.ref]>>
  /\ UNCHANGED <<filters, groupVars, refiltered>>

\* filterModelData(filters, result) is called with the collection the first call
\* returned.
FilterModelDataAgain ==
  /\ filtered # <<>>
  /\ ~filtered[1].threw
  /\ refiltered = <<>>
  /\ LET r == filterModelData(filters, heap, filtered[1].ref)
     IN  /\ heap' = r.heap
         /\ refiltered' = <<[threw |-> r.threw, ref |-> r.ref]>>
  /\ UNCHANGED <<filters, groupVars, filtered>>

\* ------------------------------------------------------------ filter panel

\* The filters the panel offers, as [filterBy, filter]: for every model with
\* info, its cloud, region, owner and credential (each value listed once).
OfferedFilters(data) ==
  UNION {LET info == data.entries[k].value.info[1]
         IN  {[filterBy |-> "cloud", filter |-> extractCloudName(info.cloudTag)],
              [filterBy |-> "region", filter |-> info.cloudRegion],
              [filterBy |-> "owner", filter |-> extractOwnerName(info.ownerTag)],
              [filterBy |-> "credential",
               filter |-> extractCredentialName(info.cloudCredentialTag)]} :
           k \in {j \in 1..Len(data.entries) : data.entries[j].value.info # <<>>}}

\* A value as a template literal prints it.
Str(v) == IF v = Undefined THEN <<"undefined">> ELSE v

\* `${filterBy}: ${filter}`, the string a button of the panel adds.
FilterLabel(o) == <<o.filterBy, ":", " ">> \o Str(o.filter)

\* Array.prototype.splice(index, 1), index 1-based here.
Splice(arr, index) == SubSeq(arr, 1, index - 1) \o SubSeq(arr, index + 1, Len(arr))

\* useState([]): no active filter; the collection is what getModelData selects.
InitFilterTags ==
  /\ filters = Arr(<<>>)
  /\ modelData \in
       {Keyed(ds) : ds \in SeqUpTo({MkData(a) : a \in SampleAttrs}, MaxFilterModels)}
  /\ heap = <<modelData>>
  /\ filtered = <<>>
  /\ refiltered = <<>>
  /\ NoGrouping

\* A button of the panel is clicked: addActiveFilter(`${filterBy}: ${filter}`).
AddActiveFilter(o) ==
  /\ filtered = <<>>
  /\ Len(filters.entries) < MaxActiveFilters \/ Includes(filters.entries, FilterLabel(o))
  /\ filters' = IF ~Includes(filters.entries, FilterLabel(o))
                THEN Arr(Append(filters.entries, FilterLabel(o)))
                ELSE filters
  /\ UNCHANGED <<groupVars, heap, filtered, refiltered>>

\* The close icon of an active filter is clicked: removeActiveFilter(filter).
RemoveActiveFilter(i) ==
  /\ filtered = <<>>
  /\ filters' = Arr(Splice(filters.entries, indexOf(filters.entries, filters.entries[i]) + 1))
  /\ UNCHANGED <<groupVars, heap, filtered, refiltered>>

\* ------------------------------------------------- grouping by owner, cloud

\* The position of the group stored under key in the entries of grouped, 0 when
\* there is none.
GroupAt(entries, key) ==
  IF \E k \in 1..Len(entries) : entries[k].key = key
  THEN CHOOSE k \in 1..Len(entries) : entries[k].key = key
  ELSE 0

\* if (!grouped[key]) { grouped[key] = []; } grouped[key].push(model)
PushTo(entries, key, m) ==
  LET at == GroupAt(entries, key)
  IN  IF at = 0
      THEN Append(entries, [key |-> key, value |-> <<m>>])
      ELSE [entries EXCEPT ![at].value = Append(@, m)]

RECURSIVE OwnerForIn(_, _, _)
\* groupModelsByOwner: for (let modelUUID in modelData) { ... }, from key k on.
OwnerForIn(data, k, acc) ==
  IF k > Len(data) THEN acc
  ELSE LET m == data[k].value
       IN  OwnerForIn(data, k + 1,
             IF m.info # <<>>
             THEN PushTo(acc, extractOwnerName(m.info[1].ownerTag),
                         [uuid |-> data[k].key, data |-> m])
             ELSE acc)

groupModelsByOwner(data) ==
  IF data = Null THEN Obj(<<>>) ELSE Obj(OwnerForIn(data.entries, 1, <<>>))

RECURSIVE CloudForIn(_, _, _)
\* groupModelsByCloud: for (let modelUUID in modelData) { ... }, from key k on.
CloudForIn(data, k, acc) ==
  IF k > Len(data) THEN acc
  ELSE LET m == data[k].value
       IN  CloudForIn(data, k + 1,
             IF m.info # <<>>
             THEN PushTo(acc, extractCloudName(m.info[1].cloudTag),
                         [uuid |-> data[k].key, data |-> m])
             ELSE acc)

groupModelsByCloud(data) ==
  IF data = Null THEN Obj(<<>>) ELSE Obj(CloudForIn(data.entries, 1, <<>>))

InitGroupBy ==
  /\ modelData \in {Null} \cup
       {Keyed(ds) : ds \in SeqUpTo({MkData(a) : a \in SampleAttrs}, MaxModels)}
  /\ NoGrouping

\* groupModelsByOwner(modelData) is called.
GroupModelsByOwner ==
  /\ byOwner = <<>>
  /\ byOwner' = <<groupModelsByOwner(modelData)>>
  /\ UNCHANGED <<modelData, grouped, statusCounts, byCloud, machinesGrouped, classified, lookup>>

\* groupModelsByCloud(modelData) is called.
GroupModelsByCloud ==
  /\ byCloud = <<>>
  /\ byCloud' = <<groupModelsByCloud(modelData)>>
  /\ UNCHANGED <<modelData, grouped, statusCounts, byOwner, machinesGrouped, classified, lookup>>

\* ----------------------------------------------------------- lookup by name

\* String.prototype.includes, for a one-token pattern
StrIncludes(str, x) == Find(str, x) # 0

RECURSIVE LookupForIn(_, _, _, _)
\* getModelUUIDByName: for (let uuid in modelData) { ... }, from key k on; owner
\* is <<>> for null. Yields <<uuid>>, or <<>> when the loop ends.
LookupForIn(data, k, owner, modelName) ==
  IF k > Len(data) THEN <<>>
  ELSE LET info  == data[k].value.info
       IN  IF info # <<>> /\ info[1].name = modelName
           THEN IF owner # <<>> /\ owner[1] # <<>>
                THEN IF info[1].ownerTag = <<"user-">> \o owner[1]
                     THEN <<data[k].key>>
                     ELSE LookupForIn(data, k + 1, owner, modelName)
                ELSE <<data[k].key>>
           ELSE LookupForIn(data, k + 1, owner, modelName)

\* getModelUUIDByName(name, modelData): <<uuid>>, or <<>> for null.
getModelUUIDByName(name, data) ==
  LET parts     == Split(name, "/")
      owner     == IF StrIncludes(name, "/") THEN <<At(parts, 0)>> ELSE <<>>
      modelName == IF StrIncludes(name, "/") THEN At(parts, 1) ELSE name
  IN  IF data = Null THEN <<>> ELSE LookupForIn(data.entries, 1, owner, modelName)

\* "<owner>/<model name>" as the model details URL names a model.
QualifiedName(info) == extractOwnerName(info.ownerTag) \o <<"/">> \o info.name

\* The names a lookup is made with: every stored model's name, alone and with
\* its owner, and names of no stored model.
LookupNames(data) ==
  {<<"gamma">>, <<"nobody", "/", "alpha">>}
  \cup (IF data = Null THEN {}
        ELSE UNION {{data.entries[k].value.info[1].name,
                     QualifiedName(data.entries[k].value.info[1])} :
                      k \in {j \in 1..Len(data.entries) :
                               data.entries[j].value.info # <<>>}})

InitLookup ==
  /\ modelData \in {Null} \cup
       {Keyed(ds) : ds \in SeqUpTo({MkData(a) : a \in SampleAttrs}, MaxNamedModels)}
  /\ NoGrouping

\* getModelUUIDByName(name, modelData) is called.
GetModelUUIDByName(name) ==
  /\ lookup' = <<[name |-> name, result |-> getModelUUIDByName(name, modelData)]>>
  /\ UNCHANGED <<modelData, grouped, statusCounts, byOwner, byCloud, machinesGrouped,
                 classified>>

\* ------------------------------------------------ classifiers and machines

\* Raw agent status values of a machine: the keys its classifier looks for, and
\* one other value.
MachineStatusValues == {"down", "pending", "started"}

\* The raw status values a classifier is called with: its own and the others'.
RawStatusValues == AppStatusValues \cup UnitStatusValues \cup MachineStatusValues

RECURSIVE MachinesForIn(_, _, _, _)
\* for (let machineID in model.machines) { ... }, from key i on. A pushed
\* machine is the object stored under its key in the model stored under its.
MachinesForIn(modelUUID, machines, i, acc) ==
  IF i > Len(machines) THEN acc
  ELSE LET machine == machines[i].value
       IN  MachinesForIn(modelUUID, machines, i + 1,
             [acc EXCEPT ![getMachineStatusGroup(machine).status] =
                Append(@, [uuid |-> modelUUID, id |-> machines[i].key,
                           machine |-> machine])])

RECURSIVE MachineModelsForIn(_, _, _)
\* groupMachinesByStatus: for (let modelUUID in modelData) { ... }, from key k on.
MachineModelsForIn(data, k, acc) ==
  IF k > Len(data) THEN acc
  ELSE MachineModelsForIn(data, k + 1,
         MachinesForIn(data[k].key, data[k].value.machines.entries, 1, acc))

groupMachinesByStatus(data) ==
  LET grouped0 == [blocked |-> <<>>, alert |-> <<>>, running |-> <<>>]
  IN  IF data = Null THEN grouped0 ELSE MachineModelsForIn(data.entries, 1, grouped0)

\* The collection of models with, for model m, sizes[m] machines whose agent
\* statuses are taken from flat in order.
MkMachineModels(sizes, flat) ==
  Keyed([m \in 1..Len(sizes) |->
           [machines |->
              Keyed([i \in 1..sizes[m] |->
                       [agentStatus |-> [status |-> flat[SumTo(sizes, m - 1) + i]]]])]])

InitMachines ==
  /\ \/ modelData = Null
     \/ \E n \in 0..MaxMachineModels :
          \E sizes \in [1..n -> 0..MaxMachines] :
            /\ SumTo(sizes, n) <= MaxMachines
            /\ \E flat \in [1..SumTo(sizes, n) -> MachineStatusValues] :
                 modelData = MkMachineModels(sizes, flat)
  /\ NoGrouping

\* groupMachinesByStatus(modelData) is called.
GroupMachinesByStatus ==
  /\ machinesGrouped = <<>>
  /\ machinesGrouped' = <<groupMachinesByStatus(modelData)>>
  /\ UNCHANGED <<modelData, grouped, statusCounts, byOwner, byCloud, classified, lookup>>

\* The classifier of a kind of entity, called with an entity of the given raw
\* status.
ClassifierOf(kind, status) ==
  IF kind = "application"
  THEN getApplicationStatusGroup([status |-> [status |-> status]])
  ELSE IF kind = "unit"
  THEN getUnitStatusGroup([agentStatus |-> [status |-> status]])
  ELSE getMachineStatusGroup([agentStatus |-> [status |-> status]])

\* getApplicationStatusGroup, getUnitStatusGroup or getMachineStatusGroup is
\* called.
Classify(kind, status) ==
  /\ classified' = <<[kind |-> kind, status |-> status,
                      response |-> ClassifierOf(kind, status)]>>
  /\ UNCHANGED <<modelData, grouped, statusCounts, byOwner, byCloud, machinesGrouped, lookup>>

\* -------------------------------------------------------------- root reducer

\* The keys of the bakery's localStorage, and the macaroons stored under them.
StoreKeys == {"identity", "charmstore"}

StoredMacaroons == {"macaroon-a", "macaroon-b"}

\* A bakery, as its bakery.storage._store: the store object, whose localStorage
\* property is a map from keys to macaroons, and which may have an identity
\* property of its own (<<>>: it has none).
Bakeries ==
  {[identity |-> i, localStorage |-> f] :
     i \in {<<>>} \cup {<<m>> : m \in StoredMacaroons},
     f \in UNION {[K -> StoredMacaroons] : K \in SUBSET StoreKeys}}

\* The actions handed to the reducer: the six of actionsList with their payloads,
\* and one of another reducer.
RootActions ==
  {[type |-> "updateControllerConnection", payload |-> <<"conn">>]}
  \cup {[type |-> "storeBakery", payload |-> <<b>>] : b \in Bakeries}
  \cup {[type |-> "storeVisitURL", payload |-> <<"url">>]}
  \cup {[type |-> "logOut", payload |-> <<>>]}
  \cup {[type |-> "modelStatusPolling", payload |-> <<b>>] : b \in BOOLEAN}
  \cup {[type |-> "collapsibleSidebar", payload |-> <<b>>] : b \in BOOLEAN}
  \cup {[type |-> "other", payload |-> <<>>]}

\* state = {}: no property is set.
EmptyRoot ==
  [controllerConnection |-> <<>>, bakery |-> <<>>, visitURL |-> <<>>,
   modelStatusPolling |-> <<>>, collapsibleSidebar |-> <<>>]

\* A logOut that empties the store.
LogOutCase_clear(state) ==
  IF state.bakery = <<>> THEN [state |-> state, threw |-> TRUE]
  ELSE [state |-> [state EXCEPT !.bakery =
                      <<[identity |-> state.bakery[1].identity, localStorage |-> <<>>]>>],
        threw |-> FALSE]

\* case actionsList.logOut: delete draftState.bakery.storage._store.localStorage
\* .identity; reading .storage of an absent bakery throws and produce() yields
\* no new state.
LogOutCase(state) ==
  IF state.bakery = <<>> THEN [state |-> state, threw |-> TRUE]
  ELSE LET ls == state.bakery[1].localStorage
       IN  [state |-> [state EXCEPT !.bakery =
                         <<[identity |-> state.bakery[1].identity,
                            localStorage |-> [k \in DOMAIN ls \ {"identity"} |-> ls[k]]]>>],
            threw |-> FALSE]

\* rootReducer(state, action): the next state, and whether the reducer threw.
rootReducer(state, a) ==
  IF a.type = "updateControllerConnection"
  THEN [state |-> [state EXCEPT !.controllerConnection = a.payload], threw |-> FALSE]
  ELSE IF a.type = "storeBakery"
  THEN [state |-> [state EXCEPT !.bakery = a.payload], threw |-> FALSE]
  ELSE IF a.type = "storeVisitURL"
  THEN [state |-> [state EXCEPT !.visitURL = a.payload], threw |-> FALSE]
  ELSE IF a.type = "logOut"
  THEN LogOutCase(state)
  ELSE IF a.type = "modelStatusPolling"
  THEN [state |-> [state EXCEPT !.modelStatusPolling = a.payload], threw |-> FALSE]
  ELSE IF a.type = "collapsibleSidebar"
  THEN [state |-> [state EXCEPT !.collapsibleSidebar = a.payload], threw |-> FALSE]
  ELSE [state |-> state, threw |-> FALSE]

\* isLoggedIn of selectors.js: controllerConnection && bakery &&
\* bakery.storage._store.localStorage.identity; <<>> is a falsy result
\* (undefined), <<v>> the truthy value v.
isLoggedIn(state) ==
  IF state.controllerConnection = <<>> THEN <<>>
  ELSE IF state.bakery = <<>> THEN <<>>
  ELSE IF "identity" \in DOMAIN state.bakery[1].localStorage
  THEN <<state.bakery[1].localStorage["identity"]>>
  ELSE <<>>

\* isLoggedIn of root.js: controllerConnection && bakery &&
\* bakery.storage._store.identity.
isLoggedInRoot(state) ==
  IF state.controllerConnection = <<>> THEN <<>>
  ELSE IF state.bakery = <<>> THEN <<>>
  ELSE state.bakery[1].identity

\* useSelector(isLoggedIn) on a state.
Selected(state) == [selectors |-> isLoggedIn(state), root |-> isLoggedInRoot(state)]

\* No action has been reduced.
NoAction == [type |-> "none", payload |-> <<>>, threw |-> FALSE]

InitRoot ==
  /\ root = EmptyRoot
  /\ rootBefore = EmptyRoot
  /\ action = NoAction
  /\ loggedIn = Selected(EmptyRoot)

IdleRoot == InitRoot

\* An action is dispatched, rootReducer computes the next state and the
\* selectors are evaluated on it.
Dispatch(a) ==
  LET r == rootReducer(root, a)
  IN  /\ root' = r.state
      /\ rootBefore' = root
      /\ action' = [type |-> a.type, payload |-> a.payload, threw |-> r.threw]
      /\ loggedIn' = Selected(r.state)

\* ------------------------------------------------------ credential decoding

\* The keys credentials are stored under.
MacaroonKeys == {"identity", "charmstore", "other"}

\* A stored string: whether it is valid base64, whether the text it encodes is
\* valid JSON, and the value that text stands for.
StoredTokens ==
  { [base64 |-> TRUE,  json |-> TRUE,  value |-> "macaroon-a"],
    [base64 |-> TRUE,  json |-> TRUE,  value |-> "macaroon-b"],
    [base64 |-> TRUE,  json |-> FALSE, value |-> ""],
    [base64 |-> FALSE, json |-> FALSE, value |-> ""] }

\* atob(str): the decoded text, or an exception for an invalid string.
atob(str) ==
  IF str.base64
  THEN [threw |-> FALSE, text |-> [json |-> str.json, value |-> str.value]]
  ELSE [threw |-> TRUE, text |-> [json |-> FALSE, value |-> ""]]

\* JSON.parse(text): the value, or an exception for malformed text.
JSONparse(text) ==
  IF text.json THEN [threw |-> FALSE, value |-> text.value]
  ELSE [threw |-> TRUE, value |-> ""]

\* JSON.parse(atob(str)); an exception of atob leaves JSON.parse uncalled.
Decode(str) ==
  LET a == atob(str)
  IN  IF a.threw THEN [threw |-> TRUE, value |-> ""] ELSE JSONparse(a.text)

\* A decoding that gives up at the first entry it cannot decode.
getDecodedMacaroons_abort(m) ==
  IF m = <<>> THEN [null |-> TRUE, map |-> <<>>]
  ELSE IF \E key \in DOMAIN m[1] : Decode(m[1][key]).threw
  THEN [null |-> TRUE, map |-> <<>>]
  ELSE [null |-> FALSE, map |-> [key \in DOMAIN m[1] |-> Decode(m[1][key]).value]]

\* getDecodedMacaroons(macaroons): null for no macaroons; otherwise the object
\* that Object.keys(macaroons).forEach has filled, one key at a time, an
\* exception being caught within the callback of the key that raised it.
getDecodedMacaroons(m) ==
  IF m = <<>> THEN [null |-> TRUE, map |-> <<>>]
  ELSE [null |-> FALSE,
        map  |-> [key \in {k \in DOMAIN m[1] : ~Decode(m[1][k]).threw} |->
                    Decode(m[1][key]).value]]

InitDecode ==
  /\ macaroons \in {<<>>} \cup
       {<<f>> : f \in UNION {[K -> StoredTokens] : K \in SUBSET MacaroonKeys}}
  /\ decoded = <<>>

IdleDecode ==
  /\ macaroons = <<>>
  /\ decoded = <<>>

\* getDecodedMacaroons(macaroons) is called.
GetDecodedMacaroons ==
  /\ decoded = <<>>
  /\ decoded' = <<getDecodedMacaroons(macaroons)>>
  /\ UNCHANGED macaroons

\* ---------------------------------------------------------- specifications

\* A cycle over a list short enough for its tasks to be told apart.
InitTracked ==
  InitPoll /\ modelList <= MaxTracked
  /\ IdleRollup /\ IdleGroup /\ IdleFilter /\ IdleRoot /\ IdleDecode

Init == InitPoll /\ IdleRollup /\ IdleGroup /\ IdleFilter /\ IdleRoot /\ IdleDecode

Next == NextPoll /\ UNCHANGED <<rollupVars, groupVars, filterVars, rootVars, decodeVars>>

Spec == Init /\ [][Next]_vars

SpecTracked == InitTracked /\ [][Next]_vars

IdlePoll == InitPoll /\ modelList = 0 /\ polling = FALSE

InitR == InitRollup /\ IdlePoll /\ IdleGroup /\ IdleFilter /\ IdleRoot /\ IdleDecode

NextRollup ==
  GetModelStatusGroupData /\ UNCHANGED <<pollVars, groupVars, filterVars, rootVars, decodeVars>>

SpecRollup == InitR /\ [][NextRollup]_vars

InitG == InitGroup /\ IdlePoll /\ IdleRollup /\ IdleFilter /\ IdleRoot /\ IdleDecode

NextGroup ==
  /\ GroupModelsByStatus \/ GetGroupedModelStatusCounts
  /\ UNCHANGED <<pollVars, rollupVars, filterVars, rootVars, decodeVars>>

SpecGroup == InitG /\ [][NextGroup]_vars

InitF == InitFilter /\ IdlePoll /\ IdleRollup /\ IdleRoot /\ IdleDecode

NextFilter ==
  /\ FilterModelData \/ FilterModelDataAgain
  /\ UNCHANGED <<pollVars, rollupVars, rootVars, decodeVars>>

SpecFilter == InitF /\ [][NextFilter]_vars

InitGB == InitGroupBy /\ IdlePoll /\ IdleRollup /\ IdleFilter /\ IdleRoot /\ IdleDecode

NextGroupBy ==
  /\ GroupModelsByOwner \/ GroupModelsByCloud
  /\ UNCHANGED <<pollVars, rollupVars, filterVars, rootVars, decodeVars>>

SpecGroupBy == InitGB /\ [][NextGroupBy]_vars

InitM == InitMachines /\ IdlePoll /\ IdleRollup /\ IdleFilter /\ IdleRoot /\ IdleDecode

NextMachines ==
  /\ \/ GroupMachinesByStatus
     \/ \E kind \in {"application", "unit", "machine"} :
          \E status \in RawStatusValues : Classify(kind, status)
  /\ UNCHANGED <<pollVars, rollupVars, filterVars, rootVars, decodeVars>>

SpecMachines == InitM /\ [][NextMachines]_vars

InitL == InitLookup /\ IdlePoll /\ IdleRollup /\ IdleFilter /\ IdleRoot /\ IdleDecode

NextLookup ==
  /\ \E name \in LookupNames(modelData) : GetModelUUIDByName(name)
  /\ UNCHANGED <<pollVars, rollupVars, filterVars, rootVars, decodeVars>>

SpecLookup == InitL /\ [][NextLookup]_vars

InitFT == InitFilterTags /\ IdlePoll /\ IdleRollup /\ IdleRoot /\ IdleDecode

NextFilterTags ==
  /\ \/ \E o \in OfferedFilters(modelData) : AddActiveFilter(o)
     \/ \E i \in 1..Len(filters.entries) : RemoveActiveFilter(i)
     \/ FilterModelData
  /\ UNCHANGED <<pollVars, rollupVars, rootVars, decodeVars>>

SpecFilterTags == InitFT /\ [][NextFilterTags]_vars

InitRt == InitRoot /\ IdlePoll /\ IdleRollup /\ IdleGroup /\ IdleFilter /\ IdleDecode

NextRoot ==
  /\ \E a \in RootActions : Dispatch(a)
  /\ UNCHANGED <<pollVars, rollupVars, groupVars, filterVars, decodeVars>>

SpecRoot == InitRt /\ [][NextRoot]_vars

InitD == InitDecode /\ IdlePoll /\ IdleRollup /\ IdleGroup /\ IdleFilter /\ IdleRoot

NextDecode ==
  /\ GetDecodedMacaroons
  /\ UNCHANGED <<pollVars, rollupVars, groupVars, filterVars, rootVars>>

SpecDecode == InitD /\ [][NextDecode]_vars

\* -------------------------------------------------- rollup: properties

\* The severities of all entities of a model: every application and every unit.
Severities(m) ==
  {getApplicationStatusGroup(m.applications[a]).status : a \in DOMAIN m.applications}
  \cup
  UNION {{getUnitStatusGroup(m.applications[a].units[u]).status :
            u \in DOMAIN m.applications[a].units} : a \in DOMAIN m.applications}

\* The maximum of a set of severities in the order running < alert < blocked.
MaxSeverity(S) ==
  IF "blocked" \in S THEN "blocked" ELSE IF "alert" \in S THEN "alert" ELSE "running"

\* C7: the rollup's highestStatus is the maximum severity over all applications
\* and units of the model, for every order of applications and units.
C7_HighestStatusIsMax ==
  rollup # <<>> => rollup[1].highestStatus = MaxSeverity(Severities(model))

\* C7 witness: the maximum is set by the unit of an earlier application, while a
\* later application is of lower severity.
C7_Witness ==
  /\ rollup # <<>>
  /\ Len(model.applications) = 2
  /\ model.applications[1].status.status = "active"
  /\ Len(model.applications[1].units) = 2
  /\ model.applications[1].units[1].agentStatus.status = "allocating"
  /\ model.applications[1].units[2].agentStatus.status = "idle"
  /\ model.applications[2].status.status = "active"
  /\ rollup[1].highestStatus = "alert"

\* Two applications, both classified running, each with a unit whose agent
\* status is "allocating", and no unit "lost".
AlertByUnits(m) ==
  /\ Len(m.applications) = 2
  /\ \A a \in 1..2 :
       /\ getApplicationStatusGroup(m.applications[a]).status = "running"
       /\ \E u \in DOMAIN m.applications[a].units :
            m.applications[a].units[u].agentStatus.status = "allocating"
       /\ \A u \in DOMAIN m.applications[a].units :
            m.applications[a].units[u].agentStatus.status # "lost"

\* The status info of the allocating units of a model, in iteration order.
RECURSIVE AllocatingInfo(_, _)
AllocatingInfo(m, a) ==
  IF a > Len(m.applications) THEN <<>>
  ELSE LET units == m.applications[a].units
           infos == [u \in 1..Len(units) |-> units[u].agentStatus]
       IN  [k \in 1..Len(SelectSeq(infos, LAMBDA x : x.status = "allocating")) |->
              SelectSeq(infos, LAMBDA x : x.status = "allocating")[k].info]
           \o AllocatingInfo(m, a + 1)

\* C13 as claimed: for such a model the rollup returns highestStatus "alert" and
\* the status info of both allocating units as messages, in iteration order.
C13_AlertCollectsUnitMessages ==
  (rollup # <<>> /\ AlertByUnits(model)) =>
    /\ rollup[1].highestStatus = "alert"
    /\ rollup[1].messages = AllocatingInfo(model, 1)

\* C13 as amended: for such a model the rollup returns highestStatus "alert" and
\* no messages; a status info is recorded only where "blocked" is reached.
C13_AlertCollectsNoMessages ==
  (rollup # <<>> /\ AlertByUnits(model)) =>
    /\ rollup[1].highestStatus = "alert"
    /\ rollup[1].messages = <<>>

\* C13 witness: the rollup of two running applications with one allocating
\* unit each has been computed.
C13_Witness ==
  /\ rollup # <<>>
  /\ AlertByUnits(model)
  /\ \A a \in 1..2 : Len(model.applications[a].units) = 1

\* The severities seen when application a's own status has been taken into
\* account: those of applications 1..a and of the units of applications before a.
SeenAtApp(m, a) ==
  {getApplicationStatusGroup(m.applications[b]).status : b \in 1..a}
  \cup
  UNION {{getUnitStatusGroup(m.applications[b].units[u]).status :
            u \in DOMAIN m.applications[b].units} : b \in 1..(a - 1)}

\* The running maximum is blocked after application a's own status.
BlockedAtApp(m, a) == MaxSeverity(SeenAtApp(m, a)) = "blocked"

\* The number of entries of the messages list that equal info.
MessageCount(info) ==
  Cardinality({i \in 1..Len(rollup[1].messages) : rollup[1].messages[i] = info})

\* C23: when the running maximum is blocked after an application's own status,
\* that application's status message is appended (once) and no message of any
\* of its units is.
C23_BlockedAppSkipsUnits ==
  rollup # <<>> =>
    \A a \in DOMAIN model.applications :
      BlockedAtApp(model, a) =>
        /\ MessageCount(<<"app", a>>) = 1
        /\ \A u \in DOMAIN model.applications[a].units :
             MessageCount(<<"unit", a, u>>) = 0

\* C23 witness: the rollup has been computed for a model whose second
\* application is blocked and has a lost unit and another unit, the first
\* application and its unit being running; the messages are that application's
\* status message alone.
C23_Witness ==
  /\ rollup # <<>>
  /\ Len(model.applications) = 2
  /\ model.applications[1].status.status = "active"
  /\ Len(model.applications[1].units) = 1
  /\ model.applications[1].units[1].agentStatus.status = "idle"
  /\ model.applications[2].status.status = "blocked"
  /\ Len(model.applications[2].units) = 2
  /\ model.applications[2].units[1].agentStatus.status = "lost"
  /\ rollup[1].messages = <<(<<"app", 2>>)>>

\* Unit u0 of application a is the unit that brings the running maximum to
\* blocked: the application's units are scanned and u0 is the first lost one.
BringsToBlocked(m, a, u0) ==
  /\ ~BlockedAtApp(m, a)
  /\ getUnitStatusGroup(m.applications[a].units[u0]).status = "blocked"
  /\ \A v \in 1..(u0 - 1) :
       getUnitStatusGroup(m.applications[a].units[v]).status # "blocked"

\* C24: when a unit brings the running maximum to blocked, its status message is
\* appended and no message of a later unit of the same application is.
C24_LaterUnitsNotScanned ==
  rollup # <<>> =>
    \A a \in DOMAIN model.applications :
      \A u0 \in DOMAIN model.applications[a].units :
        BringsToBlocked(model, a, u0) =>
          /\ MessageCount(<<"unit", a, u0>>) = 1
          /\ \A u \in (u0 + 1)..Len(model.applications[a].units) :
               MessageCount(<<"unit", a, u>>) = 0

\* The classified severity of the entity a status message belongs to.
OwnSeverity(m, info) ==
  IF info[1] = "app"
  THEN getApplicationStatusGroup(m.applications[info[2]]).status
  ELSE getUnitStatusGroup(m.applications[info[2]].units[info[3]]).status

\* C26: every entry of the messages list is the status message of an
\* application or unit whose own severity is blocked.
C26_MessagesOfBlockedOnly ==
  rollup # <<>> =>
    \A i \in 1..Len(rollup[1].messages) :
      OwnSeverity(model, rollup[1].messages[i]) = "blocked"

\* ------------------------------------------------ grouping: properties

\* The buckets an object stored under key k was pushed to, counted with
\* multiplicity.
Occurrences(k) ==
  LET In(bucket) == Cardinality({i \in 1..Len(bucket) : bucket[i].uuid = k})
  IN  In(grouped[1].blocked) + In(grouped[1].alert) + In(grouped[1].running)

\* C8: the result has exactly the buckets blocked, alert and running; for null
\* input all are empty; otherwise every input model is in exactly one bucket,
\* the one its rollup names, and the bucket sizes sum to the number of models.
C8_GroupingPartitions ==
  grouped # <<>> =>
    LET g == grouped[1]
        n == Len(modelData.entries)
    IN  /\ DOMAIN g = {"blocked", "alert", "running"}
        /\ Len(g.blocked) + Len(g.alert) + Len(g.running) = n
        /\ \A k \in 1..n :
             LET e == modelData.entries[k]
                 bucket == g[getModelStatusGroupData(e.value).highestStatus]
             IN  /\ Occurrences(e.key) = 1
                 /\ \E i \in 1..Len(bucket) :
                      bucket[i] = [uuid |-> e.key, data |-> e.value]

\* C8 witness: three models have been grouped, one into each bucket.
C8_Witness ==
  /\ grouped # <<>>
  /\ modelData # Null
  /\ Len(modelData.entries) = 3
  /\ Len(grouped[1].blocked) = 1
  /\ Len(grouped[1].alert) = 1
  /\ Len(grouped[1].running) = 1

\* The models of the store whose rollup has the given highestStatus.
ModelsOfSeverity(severity) ==
  {k \in 1..Len(modelData.entries) :
     getModelStatusGroupData(modelData.entries[k].value).highestStatus = severity}

\* C18: each of the counts blocked, alert and running is the number of models of
\* the store whose rollup highestStatus is that severity, and the three sum to
\* the number of models of the store.
C18_CountsTallyGrouping ==
  statusCounts # <<>> =>
    /\ DOMAIN statusCounts[1] = {"blocked", "alert", "running"}
    /\ \A severity \in {"blocked", "alert", "running"} :
         statusCounts[1][severity] = Cardinality(ModelsOfSeverity(severity))
    /\ statusCounts[1].blocked + statusCounts[1].alert + statusCounts[1].running
         = Len(modelData.entries)

\* C18 witness: the counts of a store of three models, two of them blocked and
\* one in alert.
C18_Witness ==
  /\ statusCounts # <<>>
  /\ modelData # Null
  /\ Len(modelData.entries) = 3
  /\ statusCounts[1] = [blocked |-> 2, alert |-> 1, running |-> 0]

\* ----------------------------------------------- filtering: properties

\* The attributes a model's data was made from.
AttrsOf(data) == CHOOSE a \in SampleAttrs : MkData(a) = data

\* The segment:value pair an active filter was made from.
PairOf(f) == CHOOSE pr \in SamplePairs : FilterString(pr) = f

\* The segments present in the active filters, and the value set of each.
Segments(fs) == {PairOf(fs[i])[1] : i \in 1..Len(fs)}

ValueSet(fs, segment) ==
  {PairOf(fs[i])[2] : i \in {j \in 1..Len(fs) : PairOf(fs[j])[1] = segment}}

\* The value the code extracts from a model for a segment, as a set: empty when
\* the segment is not evaluated for the model; the region of a model without a
\* region property is undefined (""), a member of no value set.
ValueFor(a, segment) ==
  IF segment = "cloud" /\ a.hasModel THEN {a.cloud}
  ELSE IF segment = "region" /\ a.hasModel THEN {a.region}
  ELSE IF segment = "owner" /\ a.hasInfo THEN {a.owner}
  ELSE IF segment = "credential" /\ a.hasInfo THEN {a.credential}
  ELSE {}

\* The model has a value for some present segment that is not in that
\* segment's value set.
Mismatch(a, fs) ==
  \E segment \in Segments(fs) :
    \E v \in ValueFor(a, segment) : v \notin ValueSet(fs, segment)

\* The call has returned a collection, for a list of filters.
Returned ==
  /\ filtered # <<>>
  /\ ~filtered[1].threw
  /\ filters # Null

\* C9: in the collection a call returns, a model is missing exactly when it has
\* a value for some present segment that is not among that segment's values
\* (values of one segment OR'd, segments AND'd); the others are kept unchanged.
C9_RemovedIffMismatch ==
  Returned =>
    LET out == heap[filtered[1].ref].entries
    IN  /\ \A i \in 1..Len(modelData.entries) :
             LET e == modelData.entries[i]
             IN  (\E j \in 1..Len(out) : out[j] = e)
                   <=> ~Mismatch(AttrsOf(e.value), filters.entries)
        /\ \A j \in 1..Len(out) : \E i \in 1..Len(modelData.entries) :
             out[j] = modelData.entries[i]

\* C9 witness: a cloud filter on aws and google and an owner filter on pizza
\* have kept one model and removed the other.
C9_Witness ==
  /\ Returned
  /\ Segments(filters.entries) = {"cloud", "owner"}
  /\ Len(modelData.entries) = 2
  /\ Len(heap[filtered[1].ref].entries) = 1

\* C10: the caller's collection is what it was before the call, whatever the
\* filters and whatever was removed from the result.
C10_InputNotMutated ==
  heap # <<>> => heap[InputRef] = modelData

\* C10 witness: a call has returned a collection with fewer models than the
\* caller's.
C10_Witness ==
  /\ Returned
  /\ Len(heap[filtered[1].ref].entries) < Len(modelData.entries)

\* The model has the source data a segment's predicate needs.
HasSource(a, segment) ==
  IF segment = "cloud" THEN a.hasModel
  ELSE IF segment = "region" THEN a.hasModel /\ a.region # ""
  ELSE IF segment \in {"owner", "credential"} THEN a.hasInfo
  ELSE FALSE

\* The model has the source data of some present segment, and its value is not
\* among that segment's values.
DefiniteMismatch(a, fs) ==
  \E segment \in Segments(fs) :
    /\ HasSource(a, segment)
    /\ \A v \in ValueFor(a, segment) : v \notin ValueSet(fs, segment)

\* C11: filtering is fail-open for cloud, credential, region and owner: a call
\* on a collection of models raises no error, whatever source data the models
\* lack, and every model without a definite mismatch is in the result.
C11_FailOpen ==
  (filtered # <<>> /\ filters # Null /\ modelData # Null) =>
    /\ ~filtered[1].threw
    /\ \A i \in 1..Len(modelData.entries) :
         LET e == modelData.entries[i]
         IN  ~DefiniteMismatch(AttrsOf(e.value), filters.entries) =>
               \E j \in 1..Len(heap[filtered[1].ref].entries) :
                 heap[filtered[1].ref].entries[j] = e

\* C12: filtering is idempotent: filtering the result of a call again with the
\* same filters returns a collection with exactly the same models.
C12_Idempotent ==
  refiltered # <<>> =>
    /\ ~refiltered[1].threw
    /\ heap[refiltered[1].ref] = heap[filtered[1].ref]

\* C12 witness: the first call removed one of two models, and its result has
\* been filtered again.
C12_Witness ==
  /\ refiltered # <<>>
  /\ filters # Null
  /\ Len(modelData.entries) = 2
  /\ Len(heap[filtered[1].ref].entries) = 1

\* ---------------------------------------------- filter panel: properties

\* Every model of the collection has its status part, with a region, and its
\* info part.
CompleteData ==
  \A k \in 1..Len(modelData.entries) :
    /\ modelData.entries[k].value.model # <<>>
    /\ modelData.entries[k].value.model[1].region # Undefined
    /\ modelData.entries[k].value.info # <<>>

\* The value filterModelData extracts from a model's data for a segment.
Extracted(data, segment) ==
  IF segment = "cloud" THEN extractCloudName(data.model[1].cloudTag)
  ELSE IF segment = "region" THEN data.model[1].region
  ELSE IF segment = "owner" THEN extractOwnerName(data.info[1].ownerTag)
  ELSE extractCredentialName(data.info[1].cloudCredentialTag)

\* C30: when the one active filter is the string the panel builds for an offered
\* value v of segment s, filtering retains every model whose extracted value
\* for s is v.
C30_OfferedFilterRetainsMatches ==
  (filtered # <<>> /\ CompleteData /\ Len(filters.entries) = 1) =>
    \A o \in OfferedFilters(modelData) :
      filters.entries[1] = FilterLabel(o) =>
        /\ ~filtered[1].threw
        /\ \A k \in 1..Len(modelData.entries) :
             Extracted(modelData.entries[k].value, o.filterBy) = o.filter =>
               \E j \in 1..Len(heap[filtered[1].ref].entries) :
                 heap[filtered[1].ref].entries[j] = modelData.entries[k]

\* --------------------------------- grouping by owner, cloud: properties

\* The groups of a result that hold the model stored under key k, counted with
\* multiplicity.
GroupsOf(result, k) ==
  {<<g, i>> \in (1..Len(result.entries)) \X (1..MaxModels + 1) :
     /\ i <= Len(result.entries[g].value)
     /\ result.entries[g].value[i].uuid = k}

\* In a result every model of the collection that has info is in exactly one
\* group, the one with the key name(attributes), as the object stored in the
\* collection; every model without info is in none; no two groups have the
\* same key and no group is empty.
IsGroupingBy(result, name(_)) ==
  LET data == modelData.entries
  IN  /\ \A k \in 1..Len(data) :
           LET m == data[k].value
               gs == GroupsOf(result, data[k].key)
           IN  IF m.info = <<>> THEN gs = {}
               ELSE /\ Cardinality(gs) = 1
                    /\ \A p \in gs :
                         /\ result.entries[p[1]].key = name(AttrsOf(m))
                         /\ result.entries[p[1]].value[p[2]] =
                              [uuid |-> data[k].key, data |-> m]
      /\ \A g \in 1..Len(result.entries) :
           /\ result.entries[g].value # <<>>
           /\ \A i \in 1..Len(result.entries[g].value) :
                \E k \in 1..Len(data) : data[k].key = result.entries[g].value[i].uuid
           /\ \A h \in 1..Len(result.entries) :
                result.entries[g].key = result.entries[h].key => g = h

\* The owner name and the cloud name of a model, from its attributes.
OwnerName(a) == <<a.owner>>

CloudName(a) == <<a.cloud>>

\* C16: groupModelsByOwner and groupModelsByCloud skip the models without info
\* and place every model with info in exactly one group, keyed by the owner
\* name (no user- prefix, no @domain) and by the cloud name (no cloud- prefix).
C16_GroupedByOwnerAndCloud ==
  /\ byOwner # <<>> => IsGroupingBy(byOwner[1], OwnerName)
  /\ byCloud # <<>> => IsGroupingBy(byCloud[1], CloudName)

\* C16 witness: three models, one without info and two of different owners, with
\* and without a domain, have been grouped by owner and by cloud.
C16_Witness ==
  /\ byOwner # <<>> /\ byCloud # <<>>
  /\ modelData # Null
  /\ Len(modelData.entries) = 3
  /\ \E k \in 1..3 : modelData.entries[k].value.info = <<>>
  /\ \E k \in 1..3 : \E a \in SampleAttrs :
       a.hasInfo /\ a.domain = "" /\ modelData.entries[k].value = MkData(a)
  /\ Len(byOwner[1].entries) = 2
  /\ Len(byCloud[1].entries) = 2

\* ------------------------------------------- lookup by name: properties

\* C29: a lookup with "<extractOwnerName(ownerTag)>/<name>" of a stored model
\* with info returns the UUID of a stored model with that name and that owner,
\* never null.
C29_OwnerLookupAgrees ==
  \A k \in 1..Len(modelData.entries) :
    (/\ lookup # <<>>
     /\ modelData.entries[k].value.info # <<>>
     /\ lookup[1].name = QualifiedName(modelData.entries[k].value.info[1]))
    => /\ lookup[1].result # <<>>
       /\ \E j \in 1..Len(modelData.entries) :
            /\ modelData.entries[j].key = lookup[1].result[1]
            /\ modelData.entries[j].value.info # <<>>
            /\ modelData.entries[j].value.info[1].name =
                 modelData.entries[k].value.info[1].name
            /\ extractOwnerName(modelData.entries[j].value.info[1].ownerTag) =
                 extractOwnerName(modelData.entries[k].value.info[1].ownerTag)

\* ----------------------------------- classifiers and machines: properties

\* The severity the fixed key sets give a raw status of a kind of entity.
SeverityOf(kind, status) ==
  LET blocked == [application |-> "blocked", unit |-> "lost", machine |-> "down"]
      alert   == [application |-> "unknown", unit |-> "allocating",
                  machine |-> "pending"]
  IN  IF status = blocked[kind] THEN "blocked"
      ELSE IF status = alert[kind] THEN "alert"
      ELSE "running"

\* The machines of the store: <<position of the model, position of the machine>>.
MachinesOfStore ==
  IF modelData = Null THEN {}
  ELSE {p \in (1..Len(modelData.entries)) \X (1..MaxMachines + 1) :
          p[2] <= Len(modelData.entries[p[1]].value.machines.entries)}

\* The machine at a position of the store, as groupMachinesByStatus pushes it.
MachineAt(p) ==
  LET e == modelData.entries[p[1]]
      m == e.value.machines.entries[p[2]]
  IN  [uuid |-> e.key, id |-> m.key, machine |-> m.value]

\* How many times bucket holds x.
CountIn(bucket, x) == Cardinality({i \in 1..Len(bucket) : bucket[i] = x})

\* C19: each classifier gives a raw status exactly one severity by its key sets
\* (application: blocked/unknown; unit: lost/allocating; machine: down/pending;
\* anything else running), and every machine of the store is pushed once, to
\* the bucket of its own severity, whatever model it belongs to.
C19_ClassifiersByKeySets ==
  /\ classified # <<>> =>
       classified[1].response =
         [status |-> SeverityOf(classified[1].kind, classified[1].status),
          message |-> "null"]
  /\ machinesGrouped # <<>> =>
       LET g == machinesGrouped[1]
       IN  /\ DOMAIN g = {"blocked", "alert", "running"}
           /\ Len(g.blocked) + Len(g.alert) + Len(g.running)
                = Cardinality(MachinesOfStore)
           /\ \A p \in MachinesOfStore :
                \A severity \in DOMAIN g :
                  CountIn(g[severity], MachineAt(p)) =
                    IF severity = SeverityOf("machine",
                                             MachineAt(p).machine.agentStatus.status)
                    THEN 1 ELSE 0

\* C19 witness: a model with a machine that is down and one that is pending, and
\* another model with a started machine, have been grouped into three buckets
\* of one machine, and a unit classifier has been called with "allocating".
C19_Witness ==
  /\ machinesGrouped # <<>>
  /\ modelData # Null
  /\ Len(modelData.entries) = 2
  /\ Len(modelData.entries[1].value.machines.entries) = 2
  /\ Len(machinesGrouped[1].blocked) = 1
  /\ Len(machinesGrouped[1].alert) = 1
  /\ Len(machinesGrouped[1].running) = 1
  /\ classified # <<>>
  /\ classified[1].kind = "unit"
  /\ classified[1].status = "allocating"
  /\ classified[1].response.status = "alert"

\* ------------------------------------------------ reducer: properties

\* C14: after a logOut action the root state is what it was before, except that
\* the store has no identity entry: the other entries of the store and the
\* fields controllerConnection, visitURL, modelStatusPolling and
\* collapsibleSidebar are unchanged, and a bakery that was stored still is.
C14_LogOutRemovesIdentityOnly ==
  action.type = "logOut" =>
    /\ root.controllerConnection = rootBefore.controllerConnection
    /\ root.visitURL = rootBefore.visitURL
    /\ root.modelStatusPolling = rootBefore.modelStatusPolling
    /\ root.collapsibleSidebar = rootBefore.collapsibleSidebar
    /\ (root.bakery = <<>>) <=> (rootBefore.bakery = <<>>)
    /\ rootBefore.bakery # <<>> =>
         LET was == rootBefore.bakery[1].localStorage
             is  == root.bakery[1].localStorage
         IN  /\ DOMAIN is = DOMAIN was \ {"identity"}
             /\ \A k \in DOMAIN is : is[k] = was[k]
             /\ root.bakery[1].identity = rootBefore.bakery[1].identity

\* A bakery holds a stored identity: in the localStorage of its store, or as the
\* store's own identity property.
HasIdentity(b) == "identity" \in DOMAIN b.localStorage \/ b.identity # <<>>

C14_Witness ==
  /\ action.type = "logOut"
  /\ rootBefore.bakery # <<>>
  /\ DOMAIN rootBefore.bakery[1].localStorage = StoreKeys
  /\ DOMAIN root.bakery[1].localStorage = {"charmstore"}
  /\ rootBefore.controllerConnection # <<>>
  /\ rootBefore.visitURL # <<>>
  /\ rootBefore.modelStatusPolling # <<>>
  /\ rootBefore.collapsibleSidebar # <<>>

\* ------------------------------------------------ decoding: properties

\* C17: the decoded map has exactly the keys whose stored token decodes, each
\* with its decoded value; an entry with a malformed token is left out, and no
\* malformed token makes the result null or the call fail.
C17_MalformedEntryOmitted ==
  (decoded # <<>> /\ macaroons # <<>>) =>
    LET stored == macaroons[1]
        wellFormed == {k \in DOMAIN stored : stored[k].base64 /\ stored[k].json}
    IN  /\ ~decoded[1].null
        /\ DOMAIN decoded[1].map = wellFormed
        /\ \A k \in wellFormed : decoded[1].map[k] = stored[k].value

\* C17 witness: of three stored entries one is not base64 and one is base64 of
\* text that is not JSON; the third has been decoded.
C17_Witness ==
  /\ decoded # <<>> /\ macaroons # <<>>
  /\ DOMAIN macaroons[1] = MacaroonKeys
  /\ ~macaroons[1]["identity"].base64
  /\ macaroons[1]["charmstore"].base64 /\ ~macaroons[1]["charmstore"].json
  /\ DOMAIN decoded[1].map = {"other"}

\* ------------------------------------------------- scheduler: properties

\* The tasks that have been started and have not reported done.
InFlight ==
  BagCardinality([t \in {u \in DOMAIN tasks : u.pc # "done"} |-> tasks[t]])

\* No started task is waiting for a network answer or for the timer.
NetworkSettled ==
  \A t \in BagToSet(tasks) : t.pc \notin {"connecting", "fullStatus", "modelInfo"}

\* C1: at any time at most 5 tasks have started and not yet reported done, and
\* every model's task is either still waiting in the queue or has been started.
C1_AtMostFiveInFlight ==
  /\ InFlight <= 5
  /\ called => Len(queue.jobs) + BagCardinality(tasks) = modelList

\* C1 witness: five tasks are in flight and a sixth one waits in the queue.
C1_Witness == InFlight = 5 /\ Len(queue.jobs) >= 1

\* C2: once the signal is disabled, no store write (update-status, update-info)
\* is dispatched while it stays disabled: every write happens with the signal on.
C2_NoWriteWhileDisabled == [][dispatched' # dispatched => polling]_vars

\* C3: once the network operations of every started task have settled (and no
\* callback is waiting for its tick), the returned promise is resolved.
C3_ResolvesOnceSettled ==
  (called /\ NetworkSettled /\ ticks = <<>>) => promise = "resolved"

\* C4: failed fetches keep no other task from starting: once the network
\* operations of every started task have settled, no job is left in the queue.
C4_FailuresKeepNoTaskWaiting ==
  (called /\ NetworkSettled) => queue.jobs = <<>>

C6_OpenedConnectionReleased ==
  \A t \in BagToSet(tasks) :
    t.pc \in {"modelInfo", "done", "failed"} => t.conn # "open"

\* The positions of event ev in the events of task t.
EventAt(t, ev) == {i \in 1..Len(t.events) : t.events[i] = ev}

\* C15: within a task the model info is requested only after the status fetch
\* has settled, and update-info is never dispatched before update-status; tasks
\* of different models are not ordered among themselves.
C15_StatusBeforeInfo ==
  \A t \in BagToSet(tasks) :
    /\ \A i \in EventAt(t, "modelInfo") : \E k \in EventAt(t, "settled") : k < i
    /\ \A i \in EventAt(t, "update-info") :
         \A k \in EventAt(t, "update-status") : k < i
    /\ \A i \in EventAt(t, "settled") : \E k \in EventAt(t, "connect") : k < i

\* C15 witness: one task has dispatched update-status and then update-info
\* while another task of the same cycle is still waiting for its connection.
C15_Witness ==
  /\ \E t \in BagToSet(tasks) :
       t.events = <<"connect", "settled", "update-status", "modelInfo", "update-info">>
  /\ \E u \in BagToSet(tasks) : u.events = <<"connect">>

\* C20: a task that started while the signal was disabled has issued no status
\* fetch and no info fetch, has dispatched nothing and has reported done; the
\* slots taken in the queue are those of the tasks that have not reported done.
C20_DisabledTaskSkips ==
  /\ \A t \in BagToSet(tasks) :
       t.signal = <<FALSE>> =>
         /\ t.pc = "done"
         /\ t.events = <<>>
         /\ t.connects = 0 /\ t.infoFetches = 0
         /\ t.statusWrites = 0 /\ t.infoWrites = 0
  /\ queue.pending = InFlight

\* C20 witness: in one cycle a task started with the signal enabled and a later
\* one, started after the signal was disabled, skipped; the queue is empty and
\* the cycle has resolved.
C20_Witness ==
  /\ \E t \in BagToSet(tasks) : t.signal = <<TRUE>>
  /\ \E t \in BagToSet(tasks) : t.signal = <<FALSE>> /\ t.pc = "done"
  /\ queue.jobs = <<>>
  /\ promise = "resolved"

\* C21: update-info is dispatched only in a step in which the signal is enabled:
\* the signal is read after the model info has been returned, and when it is
\* disabled the info is dropped.
C21_InfoWrittenOnlyWhileEnabled ==
  [][dispatched'.info # dispatched.info => polling]_vars

\* C21 witness: a task that started with the signal enabled has fetched the model
\* info and dropped it, and another task has dispatched its update-info.
C21_Witness ==
  /\ \E t \in BagToSet(tasks) :
       /\ t.signal = <<TRUE>>
       /\ t.pc = "done"
       /\ t.infoFetches = 1
       /\ t.infoWrites = 0
  /\ \E u \in BagToSet(tasks) : u.infoWrites = 1

\* C22: the timer of connectAndLoginWithTimeout covers the connect and the status
\* fetch: once it has fired, no task is still waiting for its full-status request.
C22_TimeoutCoversStatusFetch ==
  \A t \in BagToSet(tasks) : t.timer = "fired" => t.pc # "fullStatus"

\* C25: connectAndLoginWithTimeout settles at the latest when its timer fires:
\* once the timer has fired, no task is still waiting for the promise it returned.
C25_ConnectAlwaysSettles ==
  \A t \in BagToSet(tasks) : t.timer = "fired" => t.pc \notin {"connecting", "hung"}

\* C28: every update-status dispatched carries the status snapshot of the model
\* it is stored under, the one its task fetched, and no model gets two
\* update-status actions in a cycle, whatever the interleaving of the tasks.
C28_SnapshotUnderOwnUuid ==
  LET log == dispatched.log
  IN  /\ \A i \in 1..Len(log) :
           /\ log[i].status.model = log[i].modelUUID
           /\ \E t \in BagToSet(tasks) :
                /\ t.modelUUID = log[i].modelUUID
                /\ t.statusWrites = 1
                /\ log[i].status = fullStatus(t.url)
      /\ \A i, j \in 1..Len(log) : log[i].modelUUID = log[j].modelUUID => i = j

\* C28 witness: two tasks ran concurrently and the status of the second model
\* of the list was dispatched before that of the first.
C28_Witness ==
  /\ Len(dispatched.log) = 2
  /\ dispatched.log[1].modelUUID = 2
  /\ dispatched.log[2].modelUUID = 1

====
